---- MODULE Spec2Model ----
(***************************************************************************)
(* Model of src/main.py: the stable-branch batch synchroniser.             *)
(*                                                                         *)
(* The main thread submits one handle_branch work item per report row to   *)
(* a ThreadPoolExecutor(max_workers=2), waits in shutdown(True) and then   *)
(* prints the table.  Each work item drives git through clone,             *)
(* branch_exists, checkout and merge or create-branch and stores every     *)
(* step's Error in the process-wide dict error_list.                       *)
(*                                                                         *)
(* Text is modelled as a sequence of one-character strings; "ESC" stands   *)
(* for the single character \033 and "NL" for the single character \n.     *)
(***************************************************************************)
EXTENDS Integers, Sequences, FiniteSets, TLC

VARIABLES
    verbose,        \* main.py:16,199  the global verbosity flag
    repositories,   \* main.py:201     the list of Data rows of the report
    mainpc,         \* position of the main thread in main.py:203-207
    i,              \* main.py:204     index of the next row to submit
    queue,          \* work items submitted to the pool and not yet started
    pc,             \* per work item: position inside handle_branch
    frame,          \* per work item: the driver function whose body runs
    error,          \* per work item: the local `error: Error` of that function
    found,          \* per work item: what branch_exists returned (main.py:133)
    error_list,     \* main.py:12      dict: insertion-ordered [key, val] items
    wc,             \* per repository name: ./stable_workspace/<name>/
    calls,          \* history: the driver calls each work item made, with their outcomes
    stdout          \* the rows printed by display_results

vars == <<verbose, repositories, mainpc, i, queue, pc, frame, error, found,
          error_list, wc, calls, stdout>>

-----------------------------------------------------------------------------
(* Bounds *)

NumTasks == 3
MaxMsgLen == 2

(* Program constants *)

MAX_WORKERS == 2

NO_ERROR == <<>>
RED == <<"ESC", "[", "3", "1", "m">>
RESET == <<"ESC", "[", "0", "m">>
STABLE_BRANCH_NAME ==
    <<"a", "u", "t", "o", "t", "e", "s", "t", "-", "s", "t", "a", "b", "l", "e">>
\* the literal of main.py:94
BRANCH_CREATED ==
    <<"B", "r", "a", "n", "c", "h", " ", "C", "r", "e", "a", "t", "e", "d", " ", "S", "u", "c", "c", "e", "s", "s", "f", "u", "l", "l", "y">>

-----------------------------------------------------------------------------
(* Inputs *)

Tasks == 1..NumTasks

\* Repository names: name k is k letters long, so names differ in length.
RepoName(k) == [j \in 1..k |-> "r"]
Names == {RepoName(k) : k \in 1..NumTasks}

\* The commit every row of the report asks for.
TargetCommit == <<"c1">>

\* The remotes a row can name
UrlPlain == <<"u", "1">>
UrlStable == <<"u", "2">>
UrlLookalike == <<"u", "3">>
UrlMerged == <<"u", "4">>
Urls == {UrlPlain, UrlStable, UrlLookalike, UrlMerged}

\* class Data: one row of the report.
Data == [repository : Names, url : Urls, hashcode : {TargetCommit}]

\* What a git process can write to a pipe: "", "c", "c\n", "c\nc", ...
RawText(n) == [j \in 1..n |-> IF j % 2 = 1 THEN "c" ELSE "NL"]
RawMsgs == {RawText(n) : n \in 0..MaxMsgLen}

\* A pipe that was not requested from Popen: communicate() gives None for it.
None == <<"None">>

ExitCodes == {0, 1}

-----------------------------------------------------------------------------
(* Text helpers *)

\* str.replace(c, "") for a one-character c
RemoveChar(s, c) == SelectSeq(s, LAMBDA x : x # c)

IsPrefix(p, s) == Len(p) <= Len(s) /\ SubSeq(s, 1, Len(p)) = p

\* `needle in hay` for two strings
Contains(hay, needle) ==
    \E k \in 0..Len(hay) : IsPrefix(needle, SubSeq(hay, k + 1, Len(hay)))

RECURSIVE ReplaceFrom(_, _, _)
\* str.replace(pat, "") from position k on, for a non-empty pat: occurrences
\* are taken left to right and do not overlap
ReplaceFrom(s, pat, k) ==
    IF k > Len(s) THEN <<>>
    ELSE IF k + Len(pat) - 1 <= Len(s) /\ SubSeq(s, k, k + Len(pat) - 1) = pat
    THEN ReplaceFrom(s, pat, k + Len(pat))
    ELSE <<s[k]>> \o ReplaceFrom(s, pat, k + 1)

Replace(s, pat) == ReplaceFrom(s, pat, 1)

Repeat(c, n) == [j \in 1..n |-> c]

\* str.ljust(width)
Ljust(s, width) == IF Len(s) >= width THEN s ELSE s \o Repeat(" ", width - Len(s))

\* str.center(width): an odd margin puts the extra blank on the left only
\* when the width is odd
Center(s, width) ==
    IF Len(s) >= width THEN s
    ELSE LET marg == width - Len(s)
             left == (marg \div 2) + (IF marg % 2 = 1 /\ width % 2 = 1 THEN 1 ELSE 0)
         IN Repeat(" ", left) \o s \o Repeat(" ", marg - left)

Max(a, b) == IF a >= b THEN a ELSE b

Last(q) == q[Len(q)]

-----------------------------------------------------------------------------
(* class Error *)

\* An Error that counts any text on the pipe as a failure
NewErrorByText(message, code) ==
    [message  |-> IF message = None \/ message = <<>> THEN <<>>
                  ELSE RemoveChar(message, "NL"),
     is_error |-> code # 0 \/ (message # None /\ message # <<>>)]

\* Error.__init__: the message loses its newlines; None and b"" give "".
NewError(message, code) ==
    [message  |-> IF message = None \/ message = <<>> THEN <<>>
                  ELSE RemoveChar(message, "NL"),
     is_error |-> code # 0]

NoError == [message |-> <<>>, is_error |-> FALSE]

-----------------------------------------------------------------------------
(* The working copy ./stable_workspace/<repository>/ and what git does to it *)

DefaultBranch == <<"m", "a", "i", "n">>
DefaultTip == <<"c0">>
StableTip == <<"s0">>
\* a tip of the stable branch whose history already holds the target commit
StableTipMerged == <<"s1">>
Detached == <<>>

\* The branches a remote can have: the default branch alone, with the stable
\* branch, with a branch whose name merely contains the stable name, or with
\* a stable branch that the target commit was merged into before.
DefaultOnly == (DefaultBranch :> DefaultTip)
WithStable == DefaultOnly @@ (STABLE_BRANCH_NAME :> StableTip)
WithLookalike == DefaultOnly @@ ((STABLE_BRANCH_NAME \o <<"2">>) :> StableTip)
WithMerged == DefaultOnly @@ (STABLE_BRANCH_NAME :> StableTipMerged)

\* The branches of the remote at a url
RemoteAt(url) ==
    CASE url = UrlStable -> WithStable
      [] url = UrlLookalike -> WithLookalike
      [] url = UrlMerged -> WithMerged
      [] OTHER -> DefaultOnly

\* A working copy: whether the directory exists, the branches the remote had
\* when it was cloned, the branches it has now and where HEAD is.
NoCopy == [cloned |-> FALSE, origin |-> DefaultOnly, tips |-> DefaultOnly,
           head |-> [branch |-> Detached, commit |-> DefaultTip]]

\* git clone <url>: refuses an existing directory; otherwise the working copy
\* holds the remote's branches with the default branch checked out.
GitClone(w, code, remote) ==
    IF code = 0
    THEN [cloned |-> TRUE, origin |-> remote, tips |-> remote,
          head |-> [branch |-> DefaultBranch, commit |-> remote[DefaultBranch]]]
    ELSE w

CanClone(w) == ~w.cloned

RECURSIVE Listing(_, _)
\* git branch -a: one line per branch
Listing(tips, names) ==
    IF names = {} THEN <<>>
    ELSE LET b == CHOOSE x \in names : TRUE
         IN <<" ", " ">> \o b \o <<"NL">> \o Listing(tips, names \ {b})

GitBranchList(w) == Listing(w.tips, DOMAIN w.tips)

\* git checkout <name>: a branch name moves HEAD to that branch, a commit id
\* detaches HEAD at that commit; anything else is an error.
CanCheckout(w, name) == name \in DOMAIN w.tips \/ name = TargetCommit

GitCheckout(w, code, name) ==
    IF code # 0 THEN w
    ELSE IF name \in DOMAIN w.tips
    THEN [w EXCEPT !.head = [branch |-> name, commit |-> w.tips[name]]]
    ELSE [w EXCEPT !.head = [branch |-> Detached, commit |-> name]]

\* git checkout -b <name>: a new branch at the current position, checked out.
CanCreate(w, name) == name \notin DOMAIN w.tips

GitCreate(w, code, name) ==
    IF code # 0 THEN w
    ELSE [w EXCEPT !.tips = (name :> w.head.commit) @@ w.tips,
                   !.head = [branch |-> name, commit |-> w.head.commit]]

\* A merge commit: its first parent, then the commit merged in
MergeCommit(a, b) == <<"M">> \o a \o b

RECURSIVE Reaches(_, _)
\* The history of `commit` holds `h`
Reaches(commit, h) ==
    \/ commit = h
    \/ commit = StableTipMerged /\ h = TargetCommit
    \/ /\ Len(commit) >= 3
       /\ commit[1] = "M"
       /\ \/ <<Last(commit)>> = h
          \/ Reaches(SubSeq(commit, 2, Len(commit) - 1), h)

\* git merge --no-ff <hashcode>: a merge commit of HEAD and the commit
\* becomes the tip of the checked-out branch; where HEAD's history holds the
\* commit already, git answers "Already up to date." with exit status 0 and
\* makes no commit.
GitMerge(w, code, hashcode) ==
    IF code # 0 \/ Reaches(w.head.commit, hashcode) THEN w
    ELSE LET m == MergeCommit(w.head.commit, hashcode)
         IN [w EXCEPT !.head = [branch |-> w.head.branch, commit |-> m],
                      !.tips = IF w.head.branch \in DOMAIN w.tips
                               THEN (w.head.branch :> m) @@ w.tips
                               ELSE w.tips]

-----------------------------------------------------------------------------
(* store_error, main.py:119-126, one step per line that uses the shared   *)
(* dict.  A thread switch inside line 124 or 126, between the subscript    *)
(* and the append, loses exactly the lines that a switch just before the   *)
(* line loses, so the line is one step.                                    *)

Repo(t) == repositories[t].repository

\* `repository in error_list`
HasKey(d, key) == \E k \in 1..Len(d) : d[k].key = key

\* error_list[repository]
Lookup(d, key) == d[CHOOSE k \in 1..Len(d) : d[k].key = key].val

\* error_list[repository] = val: a new key goes last, an old key keeps its place
SetItem(d, key, val) ==
    IF HasKey(d, key)
    THEN [k \in 1..Len(d) |-> IF d[k].key = key THEN [key |-> key, val |-> val] ELSE d[k]]
    ELSE Append(d, [key |-> key, val |-> val])

\* store_error taking the marking branch for every outcome
LineMarksAll(e) == RED \o e.message \o RESET

\* store_error without the error marker
LineUnmarked(e) == e.message

\* The string that store_error appends for an Error (main.py:123-126)
Line(e) == IF e.is_error THEN RED \o e.message \o RESET ELSE e.message

\* store_error that ignores the verbosity flag
StoresOnlyErrors(e) == e.is_error

\* store_error that stores every outcome, verbose or not
StoresAlways(e) == TRUE

\* main.py:120: store_error does something only for an error or when verbose
Stores(e) == e.is_error \/ verbose

\* handle_branch that goes on to create the branch after a merge
AfterStepBothArms(f, is_error, exists) ==
    IF is_error THEN "done"
    ELSE CASE f = "clone" -> "branch_exists"
           [] f = "checkout_branch" -> IF exists THEN "merge" ELSE "create"
           [] f = "merge_commit_into_current_branch" -> "create"
           [] OTHER -> "done"

\* handle_branch that merges whatever checkout(stable) returned
AfterStepMergeAnyway(f, is_error, exists) ==
    IF is_error /\ ~(f = "checkout_branch" /\ exists) THEN "done"
    ELSE CASE f = "clone" -> "branch_exists"
           [] f = "checkout_branch" -> IF exists THEN "merge" ELSE "create"
           [] OTHER -> "done"

\* handle_branch with the two arms of the fork exchanged
AfterStepForkSwapped(f, is_error, exists) ==
    IF is_error THEN "done"
    ELSE CASE f = "clone" -> "branch_exists"
           [] f = "checkout_branch" -> IF exists THEN "create" ELSE "merge"
           [] OTHER -> "done"

\* handle_branch without the early returns: every step is attempted
AfterStepNoReturn(f, is_error, exists) ==
    CASE f = "clone" -> "branch_exists"
      [] f = "checkout_branch" -> IF exists THEN "merge" ELSE "create"
      [] OTHER -> "done"

\* Where handle_branch goes once the driver function `f` has returned
\* is_error (main.py:131-142).
AfterStep(f, is_error, exists) ==
    IF is_error THEN "done"
    ELSE CASE f = "clone" -> "branch_exists"
           [] f = "checkout_branch" -> IF exists THEN "merge" ELSE "create"
           [] OTHER -> "done"

\* A driver function has built its Error `e`: it calls store_error, whose
\* line 120 decides whether anything is stored, and returns.
Stored(t, f, e) ==
    /\ frame' = [frame EXCEPT ![t] = f]
    /\ error' = [error EXCEPT ![t] = e]
    /\ pc' = [pc EXCEPT ![t] = IF Stores(e) THEN "se_check"
                               ELSE AfterStep(f, e.is_error, found[t])]

\* store_error without the membership test: the list is made anew each time
SeCheckAlwaysCreate(t) ==
    /\ pc[t] = "se_check"
    /\ pc' = [pc EXCEPT ![t] = "se_create"]
    /\ UNCHANGED <<verbose, repositories, mainpc, i, queue, frame, error, found,
                   error_list, wc, calls, stdout>>

\* main.py:121
SeCheck(t) ==
    /\ pc[t] = "se_check"
    /\ pc' = [pc EXCEPT ![t] = IF HasKey(error_list, Repo(t)) THEN "se_append"
                               ELSE "se_create"]
    /\ UNCHANGED <<verbose, repositories, mainpc, i, queue, frame, error, found,
                   error_list, wc, calls, stdout>>

\* main.py:122
SeCreate(t) ==
    /\ pc[t] = "se_create"
    /\ error_list' = SetItem(error_list, Repo(t), <<>>)
    /\ pc' = [pc EXCEPT ![t] = "se_append"]
    /\ UNCHANGED <<verbose, repositories, mainpc, i, queue, frame, error, found,
                   wc, calls, stdout>>

\* store_error putting the new line in front of the list
SeInsertFirst(t) ==
    /\ pc[t] = "se_append"
    /\ error_list' = SetItem(error_list, Repo(t),
                             <<Line(error[t])>> \o Lookup(error_list, Repo(t)))
    /\ pc' = [pc EXCEPT ![t] = AfterStep(frame[t], error[t].is_error, found[t])]
    /\ UNCHANGED <<verbose, repositories, mainpc, i, queue, frame, error, found,
                   wc, calls, stdout>>

\* main.py:123-126, then the return of store_error and of the driver function
\* into handle_branch
SeAppend(t) ==
    /\ pc[t] = "se_append"
    /\ error_list' = SetItem(error_list, Repo(t),
                             Append(Lookup(error_list, Repo(t)), Line(error[t])))
    /\ pc' = [pc EXCEPT ![t] = AfterStep(frame[t], error[t].is_error, found[t])]
    /\ UNCHANGED <<verbose, repositories, mainpc, i, queue, frame, error, found,
                   wc, calls, stdout>>

-----------------------------------------------------------------------------
(* The driver functions, main.py:59-108: the git process runs, the Error is *)
(* built and handed to store_error                                          *)

\* The history of driver calls: the operation, its argument, how it ended
\* ("ok", "failed", "true", "false", "raised") and the Error it built.
Call(t, op, arg, result, e) ==
    calls' = [calls EXCEPT ![t] = Append(@, [op |-> op, arg |-> arg,
                                             result |-> result, error |-> e])]

Outcome(code) == IF code = 0 THEN "ok" ELSE "failed"

\* clone, main.py:69-75
Clone(t, texts) ==
    /\ pc[t] = "clone"
    /\ \E code \in ExitCodes, err \in texts :
          /\ code = 0 => CanClone(wc[Repo(t)])
          /\ wc' = [wc EXCEPT ![Repo(t)] =
                                 GitClone(@, code, RemoteAt(repositories[t].url))]
          /\ Call(t, "clone", repositories[t].url, Outcome(code), NewError(err, code))
          /\ Stored(t, "clone", NewError(err, code))
    /\ UNCHANGED <<verbose, repositories, mainpc, i, queue, found,
                   error_list, stdout>>

\* branch_exists, main.py:59-66.  It returns whether the listing contains the
\* name, or an exception leaves it (the raise of line 64, an OSError of Popen
\* at line 60, a decoding error at line 65); nothing in handle_branch or
\* __main__ catches it, so it ends the work item and stays in the item's
\* Future, which nothing reads.
BranchExists(t) ==
    /\ pc[t] = "branch_exists"
    /\ \/ /\ Call(t, "branch_exists", STABLE_BRANCH_NAME, "raised", NoError)
          /\ pc' = [pc EXCEPT ![t] = "raised"]
          /\ UNCHANGED found
       \/ LET exists == Contains(GitBranchList(wc[Repo(t)]), STABLE_BRANCH_NAME)
          IN /\ Call(t, "branch_exists", STABLE_BRANCH_NAME,
                     IF exists THEN "true" ELSE "false", NoError)
             /\ found' = [found EXCEPT ![t] = exists]
             /\ pc' = [pc EXCEPT ![t] = "checkout"]
    /\ UNCHANGED <<verbose, repositories, mainpc, i, queue, frame, error,
                   error_list, wc, stdout>>

\* handle_branch creating the branch where the clone left HEAD
CheckoutArgDefault(t) == IF found[t] THEN STABLE_BRANCH_NAME ELSE DefaultBranch

\* The argument handle_branch gives checkout_branch (main.py:134,139)
CheckoutArg(t) == IF found[t] THEN STABLE_BRANCH_NAME ELSE repositories[t].hashcode

\* checkout_branch, main.py:78-84
CheckoutBranch(t, texts) ==
    /\ pc[t] = "checkout"
    /\ \E code \in ExitCodes, err \in texts :
          /\ code = 0 => CanCheckout(wc[Repo(t)], CheckoutArg(t))
          /\ wc' = [wc EXCEPT ![Repo(t)] = GitCheckout(@, code, CheckoutArg(t))]
          /\ Call(t, "checkout", CheckoutArg(t), Outcome(code), NewError(err, code))
          /\ Stored(t, "checkout_branch", NewError(err, code))
    /\ UNCHANGED <<verbose, repositories, mainpc, i, queue, found,
                   error_list, stdout>>

\* create_branch_from_position, main.py:87-96 (stderr is not piped: err is None)
CreateBranch(t) ==
    /\ pc[t] = "create"
    /\ \E code \in ExitCodes :
          /\ code = 0 => CanCreate(wc[Repo(t)], STABLE_BRANCH_NAME)
          /\ wc' = [wc EXCEPT ![Repo(t)] = GitCreate(@, code, STABLE_BRANCH_NAME)]
          /\ LET e == IF code # 0 THEN NewError(None, code)
                      ELSE NewError(BRANCH_CREATED, code)
             IN /\ Call(t, "create", STABLE_BRANCH_NAME, Outcome(code), e)
                /\ Stored(t, "create_branch_from_position", e)
    /\ UNCHANGED <<verbose, repositories, mainpc, i, queue, found,
                   error_list, stdout>>

\* merge_commit_into_current_branch, main.py:99-108 (stderr is not piped)
MergeCommitIntoCurrentBranch(t, texts) ==
    /\ pc[t] = "merge"
    /\ \E code \in ExitCodes, out \in texts :
          /\ code # 0 => out = CHOOSE x \in texts : TRUE
          /\ wc' = [wc EXCEPT ![Repo(t)] = GitMerge(@, code, repositories[t].hashcode)]
          /\ LET e == IF code # 0 THEN NewError(None, code) ELSE NewError(out, code)
             IN /\ Call(t, "merge", repositories[t].hashcode, Outcome(code), e)
                /\ Stored(t, "merge_commit_into_current_branch", e)
    /\ UNCHANGED <<verbose, repositories, mainpc, i, queue, found,
                   error_list, stdout>>

-----------------------------------------------------------------------------
(* The pool and the main thread, main.py:203-207 *)

Finished == {"done", "raised"}
Waiting == {"unsubmitted", "queued"}

\* The work items a worker thread is running
Running == {t \in Tasks : pc[t] \notin Finished \cup Waiting}

\* thread_pool.submit(handle_branch, ...), main.py:204-205
Submit ==
    /\ mainpc = "submit"
    /\ queue' = Append(queue, i)
    /\ pc' = [pc EXCEPT ![i] = "queued"]
    /\ i' = i + 1
    /\ mainpc' = IF i = Len(repositories) THEN "shutdown" ELSE "submit"
    /\ UNCHANGED <<verbose, repositories, frame, error, found,
                   error_list, wc, calls, stdout>>

\* A pool that stops handing out work once a repository has failed
StartUnlessFailure(t) ==
    /\ queue # <<>>
    /\ Head(queue) = t
    /\ Cardinality({u \in Tasks : pc[u] \notin {"unsubmitted", "queued", "done", "raised"}})
          < MAX_WORKERS
    /\ \A u \in Tasks : \A k \in 1..Len(calls[u]) : calls[u][k].result # "failed"
    /\ queue' = Tail(queue)
    /\ pc' = [pc EXCEPT ![t] = "clone"]
    /\ UNCHANGED <<verbose, repositories, mainpc, i, frame, error, found,
                   error_list, wc, calls, stdout>>

\* A pool that gives every work item a thread of its own
StartUnbounded(t) ==
    /\ queue # <<>>
    /\ Head(queue) = t
    /\ queue' = Tail(queue)
    /\ pc' = [pc EXCEPT ![t] = "clone"]
    /\ UNCHANGED <<verbose, repositories, mainpc, i, frame, error, found,
                   error_list, wc, calls, stdout>>

\* A worker thread takes the oldest work item; the pool has at most
\* max_workers threads.
Start(t) ==
    /\ queue # <<>>
    /\ Head(queue) = t
    /\ Cardinality(Running) < MAX_WORKERS
    /\ queue' = Tail(queue)
    /\ pc' = [pc EXCEPT ![t] = "clone"]
    /\ UNCHANGED <<verbose, repositories, mainpc, i, frame, error, found,
                   error_list, wc, calls, stdout>>

\* thread_pool.shutdown(False): the main thread does not wait
ShutdownNoWait ==
    /\ mainpc = "shutdown"
    /\ mainpc' = "display"
    /\ UNCHANGED <<verbose, repositories, i, queue, pc, frame, error, found,
                   error_list, wc, calls, stdout>>

\* thread_pool.shutdown(True) returns once every worker thread has ended
Shutdown ==
    /\ mainpc = "shutdown"
    /\ queue = <<>>
    /\ Running = {}
    /\ mainpc' = "display"
    /\ UNCHANGED <<verbose, repositories, i, queue, pc, frame, error, found,
                   error_list, wc, calls, stdout>>

(* display_results, main.py:157-187.  The box-drawing characters are named: *)
(* "H" horizontal, "V" vertical, "TL" "TM" "TR" / "ML" "MM" "MR" / "BL"     *)
(* "BM" "BR" the corners and joints of the top, middle and bottom borders.  *)

\* main.py:167
Cleaned(message) == Replace(Replace(message, RED), RESET)

RECURSIVE LongestIn(_)
\* main.py:166-169 for one list of messages
LongestIn(messages) ==
    IF messages = <<>> THEN 0
    ELSE Max(Len(Cleaned(Head(messages))), LongestIn(Tail(messages)))

RECURSIVE LongestKey(_)
\* main.py:162-164
LongestKey(d) ==
    IF d = <<>> THEN 0 ELSE Max(Len(Head(d).key), LongestKey(Tail(d)))

RECURSIVE LongestValue(_)
\* main.py:162,166-169
LongestValue(d) ==
    IF d = <<>> THEN 0 ELSE Max(LongestIn(Head(d).val), LongestValue(Tail(d)))

\* main.py:171,173,186,187
Border(l, m, r, lk, lv) ==
    <<l, "H">> \o Repeat("H", lk) \o <<"H", m, "H">> \o Repeat("H", lv) \o <<"H", r>>

\* main.py:172,181,183
TableRow(left, right) == <<"V", " ">> \o left \o <<" ", "V", " ">> \o right \o <<" ", "V">>

RECURSIVE RepoRows(_, _, _, _, _)
\* main.py:176-185: the rows of one repository
RepoRows(repo, messages, is_first, lk, lv) ==
    IF messages = <<>> THEN <<>>
    ELSE LET message == RemoveChar(Head(messages), "NL")
             line == IF is_first
                     THEN TableRow(Ljust(repo, lk), Ljust(message, lv))
                     ELSE TableRow(Ljust(<<>>, lk), Ljust(message, lv))
         IN (IF message # <<>> THEN <<line>> ELSE <<>>)
            \o RepoRows(repo, Tail(messages), FALSE, lk, lv)

RECURSIVE Groups(_, _, _)
\* main.py:175-186
Groups(d, lk, lv) ==
    IF d = <<>> THEN <<>>
    ELSE RepoRows(Head(d).key, Head(d).val, TRUE, lk, lv)
         \o <<Border("ML", "MM", "MR", lk, lv)>>
         \o Groups(Tail(d), lk, lv)

Table(d) ==
    LET lk == LongestKey(d)
        lv == LongestValue(d)
    IN <<Border("TL", "TM", "TR", lk, lv),
         TableRow(Ljust(<<"r", "e", "p", "o">>, lk), Center(<<"e", "r", "r", "o", "r">>, lv)),
         Border("ML", "MM", "MR", lk, lv)>>
       \o Groups(d, lk, lv)
       \o <<Border("BL", "BM", "BR", lk, lv)>>

DisplayResults ==
    /\ mainpc = "display"
    /\ stdout' = Table(error_list)
    /\ mainpc' = "exit"
    /\ UNCHANGED <<verbose, repositories, i, queue, pc, frame, error, found,
                   error_list, wc, calls>>

-----------------------------------------------------------------------------

Row(n, url) == [repository |-> RepoName(n), url |-> url, hashcode |-> TargetCommit]

\* In a batch the remotes of the odd rows lack the stable branch and those of
\* the even rows have it.
BatchUrl(k) == IF k % 2 = 1 THEN UrlPlain ELSE UrlStable

\* The report of a batch: NumTasks rows with pairwise distinct names
UniqueReport == [k \in Tasks |-> Row(k, BatchUrl(k))]

\* Reports whose names may repeat: a row repeats an earlier row's name or takes
\* the next unused one (every report is one of these up to renaming).
Shapes ==
    {r \in [Tasks -> Tasks] :
        \A k \in Tasks : \A n \in 1..(r[k] - 1) : \E j \in 1..(k - 1) : r[j] = n}

Reports == {[k \in Tasks |-> Row(r[k], BatchUrl(k))] : r \in Shapes}

\* What git prints in a batch run
BatchTexts == {RawText(1)}

\* main.py:12-16 and 191-203: the state when the pool has been built
Start0 ==
    /\ verbose \in BOOLEAN
    /\ mainpc = "submit"
    /\ i = 1
    /\ queue = <<>>
    /\ pc = [t \in Tasks |-> "unsubmitted"]
    /\ frame = [t \in Tasks |-> "handle_branch"]
    /\ error = [t \in Tasks |-> NoError]
    /\ found = [t \in Tasks |-> FALSE]
    /\ error_list = <<>>
    /\ wc = [n \in Names |-> NoCopy]
    /\ calls = [t \in Tasks |-> <<>>]
    /\ stdout = <<>>

Init ==
    /\ repositories = UniqueReport
    /\ Start0

Step(texts) ==
    \/ Submit
    \/ \E t \in Tasks : Start(t)
    \/ \E t \in Tasks : Clone(t, texts)
    \/ \E t \in Tasks : BranchExists(t)
    \/ \E t \in Tasks : CheckoutBranch(t, texts)
    \/ \E t \in Tasks : CreateBranch(t)
    \/ \E t \in Tasks : MergeCommitIntoCurrentBranch(t, texts)
    \/ \E t \in Tasks : SeCheck(t)
    \/ \E t \in Tasks : SeCreate(t)
    \/ \E t \in Tasks : SeAppend(t)
    \/ Shutdown
    \/ DisplayResults

Next == Step(BatchTexts)

\* A batch over a report with pairwise distinct names
Spec == Init /\ [][Next]_vars

\* The steps of one work item
Work(t) ==
    \/ Start(t)
    \/ Clone(t, BatchTexts)
    \/ BranchExists(t)
    \/ CheckoutBranch(t, BatchTexts)
    \/ CreateBranch(t)
    \/ MergeCommitIntoCurrentBranch(t, BatchTexts)
    \/ SeCheck(t)
    \/ SeCreate(t)
    \/ SeAppend(t)

\* The steps of the batch: the submit loop, the work items and the barrier
Batch == Submit \/ (\E t \in Tasks : Work(t)) \/ Shutdown

\* A thread that can take a step of the batch is scheduled, and every git
\* process ends (communicate() returns).
Fairness == WF_vars(Batch)

FairSpec == Spec /\ Fairness

\* A batch over a report whose names may repeat
InitAnyNames ==
    /\ repositories \in Reports
    /\ Start0

SpecAnyNames == InitAnyNames /\ [][Next]_vars

\* One repository at any of the remotes, everything git can answer
InitOne ==
    /\ repositories \in {<<Row(1, url)>> : url \in Urls}
    /\ Start0

NextOne == Step(RawMsgs)

SpecOne == InitOne /\ [][NextOne]_vars

\* Two repositories at the same remote, everything git can answer: two runs
\* of handle_branch that differ in nothing but what git says
InitPair ==
    /\ repositories \in {<<Row(1, url), Row(2, url)>> : url \in Urls}
    /\ Start0

SpecPair == InitPair /\ [][NextOne]_vars

-----------------------------------------------------------------------------
(* Properties *)

N == Len(repositories)
Rows == 1..N

\* The work item has made a driver call that reported failure
Failed(t) == \E k \in 1..Len(calls[t]) : calls[t][k].result = "failed"

\* The exception of branch_exists has ended the work item
Raised(t) == pc[t] = "raised"

\* C1: in every run of handle_branch a driver call that reports failure
\* (clone, checkout, merge or create-branch exits non-zero) is the last driver
\* call of that repository: no later operation of its sequence is invoked.
C1_FailureStopsRepository ==
    \A t \in Tasks : \A k \in 1..Len(calls[t]) :
        calls[t][k].result = "failed" => k = Len(calls[t])

\* a run that ended after a failed checkout, its third call
C1_Witness ==
    \E t \in Tasks :
        /\ pc[t] = "done"
        /\ Len(calls[t]) = 3
        /\ calls[t][1].op = "clone" /\ calls[t][1].result = "ok"
        /\ calls[t][3].op = "checkout" /\ calls[t][3].result = "failed"

\* C2: when branch_exists raises inside a work item the whole batch aborts:
\* the main thread never gets past the pool to render the report.
C2_RaiseAbortsBatch ==
    (\E t \in Tasks : Raised(t)) => mainpc \notin {"display", "exit"}

\* C3: once branch_exists has raised in one work item, no other work item
\* starts and none makes a further driver call.
C3_RaiseStopsWorkers ==
    [][(\E t \in Tasks : Raised(t)) =>
          \A u \in Tasks :
              /\ calls'[u] = calls[u]
              /\ pc[u] \in Waiting => pc'[u] \in Waiting]_vars

\* C5: every row of the report is dispatched exactly once, and display_results
\* starts only when every dispatched run has ended; what it prints is the
\* table of the final error_list.
C5_RenderAfterAllRuns ==
    /\ \A t \in Tasks : (pc[t] # "unsubmitted") <=> (t \in Rows /\ t < i)
    /\ \A j, k \in 1..Len(queue) : queue[j] = queue[k] => j = k
    /\ \A k \in 1..Len(queue) : pc[queue[k]] = "queued"
    /\ \A t \in Tasks :
          Cardinality({k \in 1..Len(calls[t]) : calls[t][k].op = "clone"})
              = (IF pc[t] \in Waiting \cup {"clone"} THEN 0 ELSE 1)
    /\ mainpc \in {"display", "exit"} => \A t \in Rows : pc[t] \in Finished
    /\ mainpc = "exit" => stdout = Table(error_list)

\* the table is printed after three runs that all made their clone call
C5_Witness ==
    /\ mainpc = "exit"
    /\ N > MAX_WORKERS
    /\ \A t \in Rows : pc[t] \in Finished /\ Len(calls[t]) >= 1
    /\ Len(stdout) > 4

\* C6: at every moment at most max_workers (2) runs have started and not
\* finished, however many rows the report has.
C6_PoolBound == Cardinality(Running) <= MAX_WORKERS

\* both workers are busy while a third work item waits in the queue
C6_Witness ==
    /\ Cardinality(Running) = MAX_WORKERS
    /\ queue # <<>>

-----------------------------------------------------------------------------

\* The list under a key, empty when the key is absent
Log(key) == IF HasKey(error_list, key) THEN Lookup(error_list, key) ELSE <<>>

IsMarked(line) == IsPrefix(RED, line) /\ Len(line) >= Len(RED) + Len(RESET)
                  /\ SubSeq(line, Len(line) - Len(RESET) + 1, Len(line)) = RESET

InStore(t) == pc[t] \in {"se_check", "se_create", "se_append"}

\* What the outcomes of a sequence of driver calls should leave in the log:
\* a failed outcome its marked message, another outcome its bare message
\* when verbose and nothing otherwise.
ExpectedLines(cs) ==
    LET due == SelectSeq(cs, LAMBDA c : c.op # "branch_exists"
                                         /\ (c.error.is_error \/ verbose))
    IN [k \in 1..Len(due) |->
           IF due[k].error.is_error
           THEN (<<"ESC", "[", "3", "1", "m">> \o due[k].error.message)
                   \o <<"ESC", "[", "0", "m">>
           ELSE due[k].error.message]

\* The calls whose store_error has returned
Settled(t) == IF InStore(t) THEN SubSeq(calls[t], 1, Len(calls[t]) - 1) ELSE calls[t]

\* The log of the work item's repository holds what its settled calls should
\* have left, and the key exists only if something was to be stored.
LogMatches(t) ==
    LET expected == ExpectedLines(Settled(t))
    IN /\ Log(Repo(t)) = expected
       /\ HasKey(error_list, Repo(t)) => (expected # <<>> \/ pc[t] = "se_append")

\* Marked lines sit only under the keys of repositories that failed, and a
\* repository that ended on a failure has a marked last line.
C4_Local ==
    /\ \A k \in 1..Len(error_list) :
          (\E j \in 1..Len(error_list[k].val) : IsMarked(error_list[k].val[j]))
             => \E t \in Rows : Repo(t) = error_list[k].key /\ Failed(t)
    /\ \A t \in Rows :
          Failed(t) /\ pc[t] = "done" =>
             /\ Log(Repo(t)) # <<>>
             /\ IsMarked(Last(Log(Repo(t))))

\* C4: a failing step ends only its own repository's run: the failure is
\* stored under that repository's key and no other, and every repository of
\* the batch is still dispatched and reaches its end.
C4_FailureIsLocal ==
    /\ []C4_Local
    /\ (\E t \in Rows : Failed(t)) ~> (\A u \in Rows : pc[u] \in Finished)

\* the first repository failed at clone and the third ran to a created branch
C4_Witness ==
    /\ N >= 3
    /\ pc[1] = "done" /\ Len(calls[1]) = 1 /\ Failed(1)
    /\ pc[3] = "done" /\ Len(calls[3]) = 4 /\ ~Failed(3)
    /\ ~HasKey(error_list, Repo(3)) \/ \A j \in 1..Len(Log(Repo(3))) : ~IsMarked(Log(Repo(3))[j])

\* C7: store_error appends exactly one line for a failed outcome (marked,
\* verbose or not) and for any outcome when verbose (unmarked unless failed),
\* creating the list on first use, and otherwise leaves error_list alone: no
\* key, no line.
C7_StoreError == \A t \in Rows : LogMatches(t)

\* not verbose: the clone's success left no key, the failed checkout one
\* marked line
C7_Witness ==
    /\ ~verbose
    /\ pc[1] = "done"
    /\ Len(calls[1]) = 3 /\ calls[1][3].result = "failed"
    /\ Len(Log(Repo(1))) = 1
    /\ IsMarked(Log(Repo(1))[1])

\* C8: with pairwise distinct names and more rows than workers, under every
\* interleaving each repository's list holds exactly its own lines in the
\* order its run stored them, under its own key: nothing lost, doubled or
\* misplaced.
C8_DistinctNamesDoNotInterfere ==
    /\ \A j, k \in 1..Len(error_list) : error_list[j].key = error_list[k].key => j = k
    /\ \A k \in 1..Len(error_list) : \E t \in Rows : Repo(t) = error_list[k].key
    /\ \A t \in Rows : LogMatches(t)

\* three repositories ended with two or more lines each while only two
\* workers ran them
C8_Witness ==
    /\ mainpc = "exit"
    /\ N > MAX_WORKERS
    /\ \A t, u \in Rows : Repo(t) = Repo(u) => t = u
    /\ \A t \in Rows : Len(Log(Repo(t))) >= 2

RECURSIVE LinesStoredFor(_, _)
\* How many lines the first k work items stored for the name
LinesStoredFor(name, k) ==
    IF k = 0 THEN 0
    ELSE (IF Repo(k) = name THEN Len(ExpectedLines(Settled(k))) ELSE 0)
         + LinesStoredFor(name, k - 1)

\* C9: store_error calls for one name serialize: whenever no call for the
\* name is under way its list holds every line any work item stored for it.
C9_SameNameSerializes ==
    \A name \in Names :
        (\A t \in Rows : Repo(t) = name => ~InStore(t))
           => Len(Log(name)) = LinesStoredFor(name, N)

\* The run has ended and none of its driver calls failed or raised
AllSucceeded(t) ==
    /\ pc[t] = "done"
    /\ \A k \in 1..Len(calls[t]) : calls[t][k].result \in {"ok", "true", "false"}

\* C10: where the stable branch does not exist after the clone, a run
\* whose every step succeeds calls checkout(hashcode) and then
\* create-branch(stable) and never merge, and leaves the working copy on the
\* stable branch at the commit asked for.
C10_CreatedNew ==
    \A t \in Rows :
        AllSucceeded(t) /\ STABLE_BRANCH_NAME \notin DOMAIN wc[Repo(t)].origin =>
           /\ Len(calls[t]) = 4
           /\ calls[t][1].op = "clone"
           /\ calls[t][2].op = "branch_exists" /\ calls[t][2].result = "false"
           /\ calls[t][3].op = "checkout" /\ calls[t][3].arg = repositories[t].hashcode
           /\ calls[t][4].op = "create" /\ calls[t][4].arg = STABLE_BRANCH_NAME
           /\ \A k \in 1..Len(calls[t]) : calls[t][k].op # "merge"
           /\ wc[Repo(t)].head = [branch |-> STABLE_BRANCH_NAME,
                                  commit |-> repositories[t].hashcode]
           /\ wc[Repo(t)].tips[STABLE_BRANCH_NAME] = repositories[t].hashcode

\* a run over a remote without the stable branch ended with the branch created
C10_Witness ==
    \E t \in Rows :
        /\ AllSucceeded(t)
        /\ STABLE_BRANCH_NAME \notin DOMAIN wc[Repo(t)].origin
        /\ Last(calls[t]).op = "create"
        /\ wc[Repo(t)].head.branch = STABLE_BRANCH_NAME

-----------------------------------------------------------------------------

\* The run went through checkout(stable) and merge(hashcode), four calls in
\* all and no create-branch, with the stable branch checked out at the end
MergedPath(t) ==
    /\ Len(calls[t]) = 4
    /\ calls[t][1].op = "clone"
    /\ calls[t][2].op = "branch_exists" /\ calls[t][2].result = "true"
    /\ calls[t][3].op = "checkout" /\ calls[t][3].arg = STABLE_BRANCH_NAME
    /\ calls[t][4].op = "merge" /\ calls[t][4].arg = repositories[t].hashcode
    /\ \A k \in 1..Len(calls[t]) : calls[t][k].op # "create"
    /\ wc[Repo(t)].head.branch = STABLE_BRANCH_NAME
    /\ wc[Repo(t)].head.commit = wc[Repo(t)].tips[STABLE_BRANCH_NAME]

\* The stable branch existed at the remote when the repository was cloned
StableExisted(t) == STABLE_BRANCH_NAME \in DOMAIN wc[Repo(t)].origin

\* C11 as stated: where the stable branch exists after the clone, a run
\* whose every step succeeds calls checkout(stable) and then merge(hashcode)
\* on the stable branch, never create-branch, and ends with the stable branch
\* at a new merge commit whose second parent is the target commit.
C11_MergedIntoExisting ==
    \A t \in Rows :
        AllSucceeded(t) /\ StableExisted(t) =>
           /\ MergedPath(t)
           /\ wc[Repo(t)].tips[STABLE_BRANCH_NAME]
                 = MergeCommit(wc[Repo(t)].origin[STABLE_BRANCH_NAME],
                               repositories[t].hashcode)

\* C11 amended: on that path the merge is called only with the stable branch
\* checked out, the stable branch ends holding the target commit in its
\* history, and its tip is a new merge commit of its old tip and the target
\* commit unless its history held the target commit already, in which case the
\* successful merge leaves the tip where it was.
C11_MergedOrUpToDate ==
    /\ \A t \in Rows :
          pc[t] = "merge" => wc[Repo(t)].head.branch = STABLE_BRANCH_NAME
    /\ \A t \in Rows :
          AllSucceeded(t) /\ StableExisted(t) =>
             LET old == wc[Repo(t)].origin[STABLE_BRANCH_NAME]
                 new == wc[Repo(t)].tips[STABLE_BRANCH_NAME]
                 h == repositories[t].hashcode
             IN /\ MergedPath(t)
                /\ Reaches(new, h)
                /\ new = IF Reaches(old, h) THEN old ELSE MergeCommit(old, h)

\* a run over a remote with the stable branch ended with a new merge commit
\* at the tip of the stable branch
C11_Witness ==
    \E t \in Rows :
        /\ AllSucceeded(t)
        /\ StableExisted(t)
        /\ Last(calls[t]).op = "merge"
        /\ wc[Repo(t)].tips[STABLE_BRANCH_NAME]
              = MergeCommit(StableTip, repositories[t].hashcode)

-----------------------------------------------------------------------------

\* The printed rows that are neither borders nor the header
IsDataRow(k) == k > 3 /\ k <= Len(stdout) /\ stdout[k][1] = "V"

\* The name column of a printed row, for a name column of width lk
NameCell(row, lk) == SubSeq(row, 3, 2 + lk)

\* C12: when not verbose, a repository none of whose steps failed never has
\* a key in error_list and no printed row bears its name; if every repository
\* of the batch succeeded fully, error_list is empty when display_results
\* runs and the table is the four frame rows alone.
C12_SilentSuccess ==
    /\ \A t \in Rows :
          ~verbose /\ ~Failed(t) =>
             /\ ~HasKey(error_list, Repo(t))
             /\ \A k \in 1..Len(stdout) :
                   IsDataRow(k) =>
                      NameCell(stdout[k], LongestKey(error_list))
                         # Ljust(Repo(t), LongestKey(error_list))
    /\ ~verbose /\ mainpc \in {"display", "exit"}
             /\ (\A t \in Rows : AllSucceeded(t))
          => /\ error_list = <<>>
             /\ mainpc = "exit" =>
                   /\ Len(stdout) = 4
                   /\ \A k \in 1..Len(stdout) : ~IsDataRow(k)

\* the table was printed, not verbose, after every repository succeeded
C12_Witness ==
    /\ ~verbose
    /\ mainpc = "exit"
    /\ N >= 2
    /\ \A t \in Rows : AllSucceeded(t) /\ Len(calls[t]) = 4
    /\ Len(stdout) = 4

-----------------------------------------------------------------------------

\* The run created the stable branch: the remote had none and no step failed
CreatedPath(t) == AllSucceeded(t) /\ ~StableExisted(t)

\* C13 as stated: for a single repository without the stable branch whose
\* steps all succeed, the recorded sequence is empty when not verbose and,
\* when verbose, exactly two lines: the checkout outcome and then the
\* create-branch success text.
C13_TwoLinesWhenVerbose ==
    \A t \in Rows :
        N = 1 /\ CreatedPath(t) =>
           Log(Repo(t)) = IF verbose
                          THEN <<calls[t][3].error.message, BRANCH_CREATED>>
                          ELSE <<>>

\* C13 amended: the recorded sequence is empty (no key at all) when not
\* verbose and, when verbose, exactly three unmarked lines: the clone
\* outcome, the checkout outcome and then the create-branch success text.
C13_ThreeLinesWhenVerbose ==
    \A t \in Rows :
        N = 1 /\ CreatedPath(t) =>
           /\ calls[t][1].op = "clone" /\ calls[t][3].op = "checkout"
           /\ ~verbose => ~HasKey(error_list, Repo(t))
           /\ verbose =>
                 /\ Log(Repo(t)) = <<calls[t][1].error.message,
                                     calls[t][3].error.message,
                                     BRANCH_CREATED>>
                 /\ \A k \in 1..3 : ~IsMarked(Log(Repo(t))[k])
                                      /\ ~Contains(Log(Repo(t))[k], <<"NL">>)

\* verbose: the run created the branch and left three lines, the first of
\* them the text git clone wrote
C13_Witness ==
    /\ verbose
    /\ N = 1
    /\ CreatedPath(1)
    /\ Len(Log(Repo(1))) = 3
    /\ Log(Repo(1))[1] # <<>>
    /\ Log(Repo(1))[3] = BRANCH_CREATED

-----------------------------------------------------------------------------

\* The work item's clone succeeded, branch_exists answered true and
\* checkout(stable) failed, and store_error has returned
StableCheckoutFailed(t) ==
    /\ Len(calls[t]) >= 3
    /\ ~InStore(t)
    /\ calls[t][1].op = "clone" /\ calls[t][1].result = "ok"
    /\ calls[t][2].op = "branch_exists" /\ calls[t][2].result = "true"
    /\ calls[t][3].op = "checkout" /\ calls[t][3].arg = STABLE_BRANCH_NAME
    /\ calls[t][3].result = "failed"

NoMerge(t) == \A k \in 1..Len(calls[t]) : calls[t][k].op # "merge"

\* C14 as stated: after a successful clone and branch_exists = true, a
\* checkout(stable) that fails with message m leaves exactly the one marked
\* line [m] under the repository's key, and merge is never called.
C14_OnlyTheMarkedLine ==
    \A t \in Rows :
        StableCheckoutFailed(t) =>
           /\ Log(Repo(t)) = <<(RED \o calls[t][3].error.message) \o RESET>>
           /\ NoMerge(t)

\* C14 amended: the run ends there with merge never called; when not verbose
\* the recorded sequence is exactly the one marked line [m], and when verbose
\* it is the unmarked clone outcome followed by the marked line [m].
C14_MarkedLineLast ==
    \A t \in Rows :
        StableCheckoutFailed(t) =>
           LET marked == (RED \o calls[t][3].error.message) \o RESET
           IN /\ pc[t] = "done"
              /\ Len(calls[t]) = 3
              /\ NoMerge(t)
              /\ IsMarked(marked)
              /\ Log(Repo(t)) = IF verbose
                                THEN <<calls[t][1].error.message, marked>>
                                ELSE <<marked>>

\* not verbose: checkout(stable) failed with a non-empty message, which is
\* the only line
C14_Witness ==
    /\ ~verbose
    /\ StableCheckoutFailed(1)
    /\ calls[1][3].error.message # <<>>
    /\ Len(Log(Repo(1))) = 1

-----------------------------------------------------------------------------

\* The largest number of a finite set of naturals, 0 for the empty set
SetMax(S) == IF S = {} THEN 0 ELSE CHOOSE x \in S : \A y \in S : y <= x

\* The longest name among the keys of error_list
NameWidth == SetMax({Len(error_list[k].key) : k \in 1..Len(error_list)})

\* The lengths of the recorded lines without their colour codes
VisibleLengths ==
    UNION {{Len(Replace(Replace(error_list[k].val[j], RED), RESET)) :
               j \in 1..Len(error_list[k].val)} : k \in 1..Len(error_list)}

MsgWidth == SetMax(VisibleLengths)

\* What a printed row shows: the row without colour codes
Visible(row) == Replace(Replace(row, RED), RESET)

\* C15: the borders are as wide as the longest name and the longest line
\* without colour codes ask for, and every data row, marked or not, shows
\* exactly as many characters as a border row.
C15_ExactPadding ==
    mainpc = "exit" =>
       /\ \A k \in 1..Len(stdout) :
             stdout[k][1] # "V" => Len(stdout[k]) = NameWidth + MsgWidth + 7
       /\ \A k \in 1..Len(stdout) :
             IsDataRow(k) => Len(Visible(stdout[k])) = NameWidth + MsgWidth + 7

\* The group a printed row belongs to: one more than the borders printed
\* between the header and the row
GroupOfRow(k) == 1 + Cardinality({j \in 4..(k - 1) : stdout[j][1] # "V"})

FirstOfGroup(k) ==
    \A j \in 4..(k - 1) : IsDataRow(j) => GroupOfRow(j) # GroupOfRow(k)

\* C16: in every group of printed rows the first row bears the repository's
\* name and every later row has a blank name column, whatever the recorded
\* lines are.
C16_NameOnFirstRow ==
    mainpc = "exit" =>
       \A k \in 1..Len(stdout) :
          IsDataRow(k) =>
             NameCell(stdout[k], NameWidth)
                = IF FirstOfGroup(k)
                  THEN Ljust(error_list[GroupOfRow(k)].key, NameWidth)
                  ELSE Repeat(" ", NameWidth)

-----------------------------------------------------------------------------

\* The operations a run may make as its k-th driver call
OpsAt(k) ==
    CASE k = 1 -> {"clone"}
      [] k = 2 -> {"branch_exists"}
      [] k = 3 -> {"checkout"}
      [] k = 4 -> {"merge", "create"}
      [] OTHER -> {}

\* The line an outcome is recorded as
RenderedLine(c) ==
    IF c.error.is_error
    THEN (<<"ESC", "[", "3", "1", "m">> \o c.error.message) \o <<"ESC", "[", "0", "m">>
    ELSE c.error.message

\* The lines are the lines of some of the calls, in the order of the calls
IsSubsequenceOfCalls(lines, cs) ==
    \E f \in [1..Len(lines) -> 1..Len(cs)] :
        /\ \A a, b \in 1..Len(lines) : a < b => f[a] < f[b]
        /\ \A j \in 1..Len(lines) :
              /\ cs[f[j]].op # "branch_exists"
              /\ lines[j] = RenderedLine(cs[f[j]])

LogIn(d, key) == IF HasKey(d, key) THEN Lookup(d, key) ELSE <<>>

\* A step leaves the lines recorded so far where they are and adds at most
\* one line, at the end
GrowsAtEnd(old, new) ==
    /\ Len(new) \in {Len(old), Len(old) + 1}
    /\ SubSeq(new, 1, Len(old)) = old

\* C17: a repository's driver calls are made in the order clone,
\* branch_exists, checkout, then merge or create-branch, and the lines under
\* its key are lines of those calls in the order the calls were made: each
\* new line goes after the lines already there.
C17_StepsAndLinesInOrder ==
    /\ [](\A t \in Rows :
            /\ \A k \in 1..Len(calls[t]) : calls[t][k].op \in OpsAt(k)
            /\ IsSubsequenceOfCalls(Log(Repo(t)), calls[t]))
    /\ [][\A t \in Rows :
            /\ GrowsAtEnd(calls[t], calls'[t])
            /\ GrowsAtEnd(LogIn(error_list, Repo(t)), LogIn(error_list', Repo(t)))]_vars

\* verbose: four calls were made and left three lines, the first two of
\* them different
C17_Witness ==
    /\ verbose
    /\ pc[1] = "done"
    /\ Len(calls[1]) = 4
    /\ Len(Log(Repo(1))) = 3
    /\ Log(Repo(1))[1] # Log(Repo(1))[2]

-----------------------------------------------------------------------------

\* The first n driver calls of the two work items ended alike: the same exit
\* statuses and the same answer of branch_exists
SameResults(t, u, n) ==
    /\ Len(calls[t]) >= n /\ Len(calls[u]) >= n
    /\ \A k \in 1..n : calls[t][k].result = calls[u][k].result

\* Which lines of a list are marked
MarkPattern(lines) == [k \in 1..Len(lines) |-> IsMarked(lines[k])]

\* C18: an Error is flagged exactly when the exit status was non-zero, and
\* two runs whose calls end with the same exit statuses and the same answer of
\* branch_exists make the same calls and mark the same lines, whatever the
\* messages were.
C18_TextDecidesNothing ==
    /\ \A t \in Rows : \A k \in 1..Len(calls[t]) :
          calls[t][k].error.is_error <=> calls[t][k].result = "failed"
    /\ \A t, u \in Rows : \A n \in 0..3 :
          SameResults(t, u, n) =>
             /\ Len(calls[t]) > n /\ Len(calls[u]) > n =>
                   /\ calls[t][n + 1].op = calls[u][n + 1].op
                   /\ calls[t][n + 1].arg = calls[u][n + 1].arg
             /\ pc[t] \in Finished /\ Len(calls[t]) = n => Len(calls[u]) = n
    /\ \A t, u \in Rows :
          /\ pc[t] \in Finished /\ pc[u] \in Finished
          /\ Len(calls[t]) = Len(calls[u])
          /\ SameResults(t, u, Len(calls[t]))
          => MarkPattern(Log(Repo(t))) = MarkPattern(Log(Repo(u)))

\* two runs ended alike on a failed checkout, one after an empty clone text
\* and one after a non-empty one, with different checkout messages
C18_Witness ==
    /\ N = 2
    /\ pc[1] = "done" /\ pc[2] = "done"
    /\ Len(calls[1]) = 3
    /\ SameResults(1, 2, 3)
    /\ calls[1][3].result = "failed"
    /\ calls[1][1].error.message = <<>> /\ calls[2][1].error.message # <<>>
    /\ calls[1][3].error.message # calls[2][3].error.message
    /\ \E k \in 1..Len(Log(Repo(1))) : IsMarked(Log(Repo(1))[k])

-----------------------------------------------------------------------------

\* How often the work item has called the operation
Count(t, op) == Cardinality({k \in 1..Len(calls[t]) : calls[t][k].op = op})

\* C19: no step is retried: a run calls branch_exists, checkout, merge and
\* create-branch at most once each and never both merge and create-branch,
\* makes at most four driver calls, and once it has ended it has called clone
\* exactly once.
C19_NoRetry ==
    \A t \in Rows :
        /\ \A op \in {"clone", "branch_exists", "checkout", "merge", "create"} :
              Count(t, op) <= 1
        /\ Count(t, "merge") + Count(t, "create") <= 1
        /\ Len(calls[t]) <= 4
        /\ pc[t] \in Finished => Count(t, "clone") = 1

\* one run ended after its clone failed and another after four calls, the
\* last of them a merge that failed
C19_Witness ==
    \E t, u \in Rows :
        /\ pc[t] = "done" /\ Len(calls[t]) = 1 /\ Failed(t)
        /\ pc[u] = "done" /\ Len(calls[u]) = 4
        /\ calls[u][4].op = "merge" /\ calls[u][4].result = "failed"

-----------------------------------------------------------------------------

\* C20: when display_results starts after a batch over pairwise distinct
\* names, every key of error_list has a non-empty list in which at most one
\* line is marked, and a marked line is the last line of its list.
C20_OneMarkedLineLast ==
    /\ mainpc \in {"display", "exit"}
    /\ \A t, u \in Rows : Repo(t) = Repo(u) => t = u
    => \A k \in 1..Len(error_list) :
          /\ error_list[k].val # <<>>
          /\ \A j \in 1..Len(error_list[k].val) :
                IsMarked(error_list[k].val[j]) => j = Len(error_list[k].val)

\* verbose: display_results starts with three keys, one of them with two
\* unmarked lines and a marked last line, another with unmarked lines only
C20_Witness ==
    /\ mainpc = "display"
    /\ verbose
    /\ Len(error_list) = 3
    /\ \E k \in 1..Len(error_list) :
          /\ Len(error_list[k].val) = 3
          /\ IsMarked(error_list[k].val[3])
    /\ \E k \in 1..Len(error_list) :
          \A j \in 1..Len(error_list[k].val) : ~IsMarked(error_list[k].val[j])

====
